---- MODULE Spec2Model ----
(***************************************************************************)
(* REST API demo (Express): two server variants of the same API.          *)
(*   arr : src/server.js            users/todos arrays, recent push/shift  *)
(*   map : src/unnamed/part_000     users/todos Maps, circular recent      *)
(* Both are driven by the same requests, one handler run per step; the     *)
(* 'finish' event of a response is a later step of its own.  SpecSteps     *)
(* runs the handler of DELETE /api/users/:id statement by statement.       *)
(***************************************************************************)
EXTENDS Integers, Sequences, FiniteSets, TLC

VARIABLES arr, map, inflight, last, clock, handled, completed, recorded, issued,
          running

vars == <<arr, map, inflight, last, clock, handled, completed, recorded, issued,
          running>>

(***************************************************************************)
(* Bounds of the model                                                     *)
(***************************************************************************)
\* requests handled in a run of Spec (sequences of requests)
MaxRequests == 2
\* requests handled in a run of SpecWide (every request of the model)
MaxWideRequests == 1
\* requests handled in a run of SpecAuth
MaxAuthRequests == 1
\* polls of /api/_stats in a run of SpecRecent (more than RECENT_SIZE)
MaxPolls == 125
\* requests handled in a run of SpecLists (a mutation, then a read)
MaxListRequests == 2
\* requests handled in a run of SpecSteps
MaxStepRequests == 2
\* requests of several kinds at the start of a run of SpecMetrics
MaxMixed == 2
\* requests handled in a run of SpecCompleted
MaxCompletedRequests == 2

(***************************************************************************)
(* JavaScript values and strings                                           *)
(***************************************************************************)
Undefined == [t |-> "undefined", v |-> ""]

Str(s) == [t |-> "string", v |-> s]

\* a number, by its decimal text
Num(s) == [t |-> "number", v |-> s]

Bool(b) == [t |-> "boolean", v |-> IF b THEN "true" ELSE "false"]

\* an array (a repeated query parameter), by its joined text
Arr(s) == [t |-> "array", v |-> s]

\* ToBoolean: !x is ~Truthy(x), !!x is Bool(Truthy(x))
Truthy(x) ==
    CASE x.t = "string" -> x.v # ""
      [] x.t = "number" -> x.v # "0"
      [] x.t = "boolean" -> x.v = "true"
      [] x.t = "array" -> TRUE
      [] OTHER -> FALSE

CharAt(s, i) == SubSeq(s, i, i)

Upper == "ABCDEFGHIJKLMNOPQRSTUVWXYZ"

Lower == "abcdefghijklmnopqrstuvwxyz"

LowerChar(c) ==
    IF \E i \in 1..26 : CharAt(Upper, i) = c
    THEN CharAt(Lower, CHOOSE i \in 1..26 : CharAt(Upper, i) = c)
    ELSE c

RECURSIVE toLowerCase(_)
toLowerCase(s) ==
    IF s = "" THEN "" ELSE LowerChar(CharAt(s, 1)) \o toLowerCase(SubSeq(s, 2, Len(s)))

\* String.prototype.includes
includes(s, q) ==
    \E i \in 1..(Len(s) + 1) :
        i + Len(q) - 1 <= Len(s) /\ SubSeq(s, i, i + Len(q) - 1) = q

\* s.split(c)[0]
SplitHead(s, c) ==
    IF \E i \in 1..Len(s) : CharAt(s, i) = c
    THEN SubSeq(s, 1, (CHOOSE i \in 1..Len(s) :
                          CharAt(s, i) = c /\ \A j \in 1..(i - 1) : CharAt(s, j) # c) - 1)
    ELSE s

Digits == "0123456789"

\* String(n) for a non-negative integer
RECURSIVE String(_)
String(n) ==
    IF n < 10 THEN CharAt(Digits, n + 1)
    ELSE String(n \div 10) \o CharAt(Digits, (n % 10) + 1)

\* the remainder operator % of JavaScript (sign of the dividend)
JsRem(a, b) == IF a >= 0 THEN a % b ELSE 0 - ((0 - a) % b)

Min(a, b) == IF a <= b THEN a ELSE b

\* Array.prototype.reverse
Reverse(s) == [i \in 1..Len(s) |-> s[Len(s) + 1 - i]]

\* Array.prototype.slice(-n)
SliceLast(s, n) == SubSeq(s, Len(s) - Min(n, Len(s)) + 1, Len(s))

\* Array.prototype.splice(i, 1) on a 1-based sequence
Splice1(s, i) == SubSeq(s, 1, i - 1) \o SubSeq(s, i + 1, Len(s))

(***************************************************************************)
(* Identifier generator and seed data                                      *)
(***************************************************************************)
\* makeId = () => String(nextId++): the id handed out and the counter after
makeId_reuses(nextId) == [id |-> String(nextId), next |-> nextId]

makeId(nextId) == [id |-> String(nextId), next |-> nextId + 1]

User(id, name, email) == [id |-> id, name |-> name, email |-> email]

Todo(id, userId, title, done) ==
    [id |-> id, userId |-> userId, title |-> title, completed |-> done]

\* the five makeId calls of module initialisation, in order
SeedData ==
    LET a == makeId(1)
        b == makeId(a.next)
        t1 == makeId(b.next)
        t2 == makeId(t1.next)
        t3 == makeId(t2.next)
    IN [users |-> << User(a.id, Str("Alice"), Str("alice@example.com")),
                     User(b.id, Str("Bob"), Str("bob@example.com")) >>,
        todos |-> << Todo(t1.id, Str(a.id), Str("Buy coffee"), Bool(FALSE)),
                     Todo(t2.id, Str(a.id), Str("Edit wedding photos"), Bool(TRUE)),
                     Todo(t3.id, Str(b.id), Str("Prepare client proposal"), Bool(FALSE)) >>,
        nextId |-> t3.next,
        ids |-> {a.id, b.id, t1.id, t2.id, t3.id}]

RECENT_SIZE == 100

\* entries of /api/_stats' recent list
RECENT_SHOWN == 20

ArrMetrics0 == [totalRequests |-> 0, byRoute |-> <<>>, recent |-> <<>>]

\* recent: new Array(RECENT_SIZE), a slot is <<>> (a hole) or <<entry>>
MapMetrics0 ==
    [totalRequests |-> 0, byRoute |-> <<>>,
     recent |-> [i \in 0..(RECENT_SIZE - 1) |-> <<>>],
     recentIndex |-> 0, recentCount |-> 0]

(***************************************************************************)
(* Requests as the handlers see them                                       *)
(***************************************************************************)
NoQuery == [q |-> Undefined, userId |-> Undefined, completed |-> Undefined]

NoHeaders == [xApiKey |-> "", authorization |-> ""]

NoBody == [name |-> Undefined, email |-> Undefined, userId |-> Undefined,
           title |-> Undefined, completed |-> Undefined]

\* path: the segments of the request path; query, body: as parsed by Express
Request(method, path, query, headers, body) ==
    [method |-> method, path |-> path, query |-> query, headers |-> headers,
     body |-> body]

RECURSIVE JoinPath(_)
JoinPath(segs) ==
    IF segs = <<>> THEN "" ELSE "/" \o Head(segs) \o JoinPath(Tail(segs))

PathOf(segs) == IF segs = <<>> THEN "/" ELSE JoinPath(segs)

QueryParam(key, x) ==
    CASE x.t = "undefined" -> <<>>
      [] x.t = "array" -> <<key \o "[]=" \o x.v>>
      [] OTHER -> <<key \o "=" \o x.v>>

RECURSIVE JoinAmp(_)
JoinAmp(ps) ==
    IF Len(ps) = 1 THEN Head(ps) ELSE Head(ps) \o "&" \o JoinAmp(Tail(ps))

\* req.originalUrl: the path with its query string
originalUrl(req) ==
    LET ps == QueryParam("q", req.query.q) \o QueryParam("userId", req.query.userId)
              \o QueryParam("completed", req.query.completed)
    IN PathOf(req.path) \o (IF ps = <<>> THEN "" ELSE "?" \o JoinAmp(ps))

\* the files express.static("public") finds
PublicFiles == { <<"style.css">>, <<"dashboard.html">>, <<"openapi.json">>, <<"docs.html">> }

\* express.static answers GET of an existing file itself and calls next() otherwise
ServedByStatic(req) == req.method = "GET" /\ req.path \in PublicFiles

\* the routes in registration order
Routes ==
    << [method |-> "GET", segs |-> <<"api", "health">>],
       [method |-> "GET", segs |-> <<"api", "users">>],
       [method |-> "POST", segs |-> <<"api", "users">>],
       [method |-> "GET", segs |-> <<"api", "users", ":id">>],
       [method |-> "PATCH", segs |-> <<"api", "users", ":id">>],
       [method |-> "DELETE", segs |-> <<"api", "users", ":id">>],
       [method |-> "GET", segs |-> <<"api", "todos">>],
       [method |-> "POST", segs |-> <<"api", "todos">>],
       [method |-> "GET", segs |-> <<"api", "todos", ":id">>],
       [method |-> "PATCH", segs |-> <<"api", "todos", ":id">>],
       [method |-> "DELETE", segs |-> <<"api", "todos", ":id">>],
       [method |-> "GET", segs |-> <<"api", "_stats">>],
       [method |-> "GET", segs |-> <<>>],
       [method |-> "GET", segs |-> <<"dashboard">>],
       [method |-> "GET", segs |-> <<"openapi.json">>],
       [method |-> "GET", segs |-> <<"docs">>] >>

RouteMatches(r, req) ==
    /\ r.method = req.method
    /\ Len(r.segs) = Len(req.path)
    /\ \A i \in 1..Len(r.segs) :
          IF CharAt(r.segs[i], 1) = ":" THEN req.path[i] # "" ELSE r.segs[i] = req.path[i]

\* req.route.path of the first route that matches, "" when none does
RouteOf(req) ==
    IF \E i \in 1..Len(Routes) : RouteMatches(Routes[i], req)
    THEN PathOf(Routes[CHOOSE i \in 1..Len(Routes) :
                   /\ RouteMatches(Routes[i], req)
                   /\ \A j \in 1..(i - 1) : ~RouteMatches(Routes[j], req)].segs)
    ELSE ""

\* req.params.id of a matched /:id route
ParamId(req) == req.path[Len(req.path)]

\* group by the concrete path instead of the route template
routeKey_concrete(req, route) == req.method \o " " \o SplitHead(originalUrl(req), "?")

\* routeKey(req), with req.route.path as set by the router ("" when unmatched);
\* req.baseUrl is "" for routes of the app itself
routeKey(req, route) ==
    req.method \o " " \o
        (IF route # "" THEN "" \o route ELSE SplitHead(originalUrl(req), "?"))

(***************************************************************************)
(* Responses                                                               *)
(***************************************************************************)
Res(status, kind) ==
    [status |-> status, kind |-> kind, error |-> "", users |-> <<>>, todos |-> <<>>,
     stats |-> <<>>]

ErrorRes(status, msg) == [Res(status, "error") EXCEPT !.error = msg]

UsersRes(status, kind, us) == [Res(status, kind) EXCEPT !.users = us]

TodosRes(status, kind, ts) == [Res(status, kind) EXCEPT !.todos = ts]

(***************************************************************************)
(* Auth (API key)                                                          *)
(***************************************************************************)
\* process.env.API_KEY || "dev-api-key-change-me"
API_KEY == "dev-api-key-change-me"

IsSpace(c) == c \in {" ", "\t"}

\* auth.match(/^ApiKey\s+(.+)$/i): <<>> for no match, else <<m[1]>>.  \s+ is
\* greedy and gives back only what (.+) needs; a header value holds no line break
ApiKeyMatch(auth) ==
    LET n == Len(auth)
    IN IF /\ n >= 8
          /\ toLowerCase(SubSeq(auth, 1, 6)) = "apikey"
          /\ IsSpace(CharAt(auth, 7))
       THEN LET k == CHOOSE j \in 7..(n - 1) :
                        /\ \A i \in 7..j : IsSpace(CharAt(auth, i))
                        /\ (j = n - 1 \/ ~IsSpace(CharAt(auth, j + 1)))
            IN <<SubSeq(auth, k + 1, n)>>
       ELSE <<>>

\* the Authorization header is looked at first
Provided_authFirst(req) ==
    LET m == ApiKeyMatch(req.headers.authorization)
    IN IF m # <<>> THEN m[1] ELSE req.headers.xApiKey

\* const provided = hdr || (m ? m[1] : "")
Provided(req) ==
    LET hdr == req.headers.xApiKey
        m == ApiKeyMatch(req.headers.authorization)
    IN IF hdr # "" THEN hdr ELSE IF m # <<>> THEN m[1] ELSE ""

\* a guard that lets every request through
apiKeyRequired_open(req) == <<>>

\* <<>> for next(), else <<the 401 response>>
apiKeyRequired(req) ==
    LET provided == Provided(req)
    IN IF provided = "" THEN <<ErrorRes(401, "missing API key")>>
       ELSE IF provided # API_KEY THEN <<ErrorRes(401, "invalid API key")>>
       ELSE <<>>

(***************************************************************************)
(* Pieces the two variants share                                           *)
(***************************************************************************)
\* what a handler leaves behind: the server's state and the response
Out(s, res) == [s |-> s, res |-> res]

\* (req.query.q || "").toLowerCase() throws for a q that is no string
QueryThrows(qv) == Truthy(qv) /\ qv.t # "string"

QueryText(qv) == IF Truthy(qv) THEN toLowerCase(qv.v) ELSE ""

\* u.name.toLowerCase().includes(q) || u.email.toLowerCase().includes(q)
\* throws a TypeError when the receiver of toLowerCase is no string
UserMatchThrows(u, q) ==
    \/ u.name.t # "string"
    \/ (~includes(toLowerCase(u.name.v), q) /\ u.email.t # "string")

UserMatches(u, q) ==
    \/ includes(toLowerCase(u.name.v), q)
    \/ includes(toLowerCase(u.email.v), q)

\* completed is looked at only when userId is not given (else if)
FilterTodos_eitherFilter(list, query) ==
    IF Truthy(query.userId)
    THEN SelectSeq(list, LAMBDA t : t.userId = query.userId)
    ELSE IF query.completed = Str("true")
    THEN SelectSeq(list, LAMBDA t : t.completed = Bool(TRUE))
    ELSE IF query.completed = Str("false")
    THEN SelectSeq(list, LAMBDA t : t.completed = Bool(FALSE))
    ELSE list

\* the filters of GET /api/todos on a copy of the list
FilterTodos(list, query) ==
    LET byUser == IF Truthy(query.userId)
                  THEN SelectSeq(list, LAMBDA t : t.userId = query.userId)
                  ELSE list
    IN IF query.completed = Str("true")
       THEN SelectSeq(byUser, LAMBDA t : t.completed = Bool(TRUE))
       ELSE IF query.completed = Str("false")
       THEN SelectSeq(byUser, LAMBDA t : t.completed = Bool(FALSE))
       ELSE byUser

\* the express error handler's answer to a handler that threw
Thrown(s) == Out(s, ErrorRes(500, "TypeError"))

\* the rows of Object.entries(metrics.byRoute): insertion order
RouteIndex(byRoute, key) == CHOOSE i \in 1..Len(byRoute) : byRoute[i].route = key

HasRoute(byRoute, key) == \E i \in 1..Len(byRoute) : byRoute[i].route = key

\* the finish listener's update of byRoute; ms in tenths of a millisecond
BumpRoute(byRoute, key, status, ms) ==
    LET rows == IF HasRoute(byRoute, key) THEN byRoute
                ELSE Append(byRoute, [route |-> key, count |-> 0, totalMs |-> 0,
                                      statuses |-> [c \in {} |-> 0]])
        i == RouteIndex(rows, key)
        old == rows[i].statuses
        n == IF status \in DOMAIN old THEN old[status] ELSE 0
    IN [rows EXCEPT ![i] = [route |-> key, count |-> rows[i].count + 1,
                            totalMs |-> rows[i].totalMs + ms,
                            statuses |-> (status :> (n + 1)) @@ old]]

\* Math.round of a duration given in tenths of a millisecond
RoundMs(tenths) == (tenths + 5) \div 10

\* the record pushed to metrics.recent
RecentEntry(req, status, t0, t1) ==
    [ts |-> t1, method |-> req.method, path |-> originalUrl(req), status |-> status,
     ms |-> RoundMs(t1 - t0)]

\* +(v.totalMs / v.count).toFixed(1), in tenths of a millisecond
AvgMs(v) == IF v.count # 0 THEN (2 * v.totalMs + v.count) \div (2 * v.count) ELSE 0

\* insert row r after every row whose count is at least r's (a stable sort step)
RECURSIVE InsertByCount(_, _)
InsertByCount(sorted, r) ==
    IF sorted = <<>> THEN <<r>>
    ELSE IF Head(sorted).count >= r.count
         THEN <<Head(sorted)>> \o InsertByCount(Tail(sorted), r)
         ELSE <<r>> \o sorted

\* the rows are left in the order of Object.entries
SortByCount_none(rows) == rows

\* .sort((a,b) => b.count - a.count), stable
RECURSIVE SortByCount(_)
SortByCount(rows) ==
    IF rows = <<>> THEN <<>>
    ELSE InsertByCount(SortByCount(SubSeq(rows, 1, Len(rows) - 1)), rows[Len(rows)])

\* the routes of /api/_stats
StatsRoutes(byRoute) ==
    SortByCount([i \in 1..Len(byRoute) |->
                    [route |-> byRoute[i].route, count |-> byRoute[i].count,
                     avgMs |-> AvgMs(byRoute[i]), statuses |-> byRoute[i].statuses]])

StatsRes(metrics, recent) ==
    [Res(200, "stats") EXCEPT
        !.stats = <<[totalRequests |-> metrics.totalRequests,
                     routes |-> StatsRoutes(metrics.byRoute), recent |-> recent]>>]

\* the routes that answer without touching users, todos or metrics
PlainRoute(s, req, route) ==
    CASE route = "/api/health" -> Out(s, Res(200, "health"))
      [] route = "/" -> Out(s, Res(200, "html"))
      [] route \in {"/dashboard", "/openapi.json", "/docs"} -> Out(s, Res(200, "file"))
      [] OTHER -> Out(s, ErrorRes(404, "Cannot " \o req.method \o " " \o PathOf(req.path)))

(***************************************************************************)
(* The Map variant (src/unnamed/part_000).  A Map is the sequence of its   *)
(* values in insertion order, keyed by their id.                           *)
(***************************************************************************)
MapHas(m, key) == \E i \in 1..Len(m) : m[i].id = key

MapIndex(m, key) == CHOOSE i \in 1..Len(m) : m[i].id = key

\* Map.prototype.get with a string key: <<>> for undefined
MapGet(m, key) == IF MapHas(m, key) THEN <<m[MapIndex(m, key)]>> ELSE <<>>

\* Map.prototype.get with any value as the key: only a string equals a key
MapGetValue(m, x) == IF x.t = "string" THEN MapGet(m, x.v) ELSE <<>>

\* a known key is deleted and set again: it goes last
MapSet_append(m, e) == Append(SelectSeq(m, LAMBDA x : x.id # e.id), e)

\* Map.prototype.set: a new key goes last, a known key keeps its place
MapSet(m, e) ==
    IF MapHas(m, e.id) THEN [m EXCEPT ![MapIndex(m, e.id)] = e] ELSE Append(m, e)

\* Map.prototype.delete
MapDelete(m, key) == SelectSeq(m, LAMBDA e : e.id # key)

MapGetUsers(s, req) ==
    IF QueryThrows(req.query.q) THEN Thrown(s)
    ELSE LET q == QueryText(req.query.q)
         IN IF q # ""
            THEN IF \E i \in 1..Len(s.users) : UserMatchThrows(s.users[i], q)
                 THEN Thrown(s)
                 ELSE Out(s, UsersRes(200, "users",
                                      SelectSeq(s.users, LAMBDA u : UserMatches(u, q))))
            ELSE Out(s, UsersRes(200, "users", s.users))

MapPostUsers(s, req) ==
    IF ~Truthy(req.body.name) \/ ~Truthy(req.body.email)
    THEN Out(s, ErrorRes(400, "name and email are required"))
    ELSE LET m == makeId(s.nextId)
             user == User(m.id, req.body.name, req.body.email)
         IN Out([s EXCEPT !.nextId = m.next, !.users = MapSet(s.users, user)],
                UsersRes(201, "user", <<user>>))

MapGetUser(s, req) ==
    LET user == MapGet(s.users, ParamId(req))
    IN IF user = <<>> THEN Out(s, ErrorRes(404, "user not found"))
       ELSE Out(s, UsersRes(200, "user", user))

\* a field is assigned only when its value is truthy (if (name) user.name = name)
MapPatchUser_truthy(s, req) ==
    LET user == MapGet(s.users, ParamId(req))
    IN IF user = <<>> THEN Out(s, ErrorRes(404, "user not found"))
       ELSE LET u1 == IF Truthy(req.body.name)
                      THEN [user[1] EXCEPT !.name = req.body.name] ELSE user[1]
                u2 == IF Truthy(req.body.email)
                      THEN [u1 EXCEPT !.email = req.body.email] ELSE u1
            IN Out([s EXCEPT !.users = MapSet(s.users, u2)], UsersRes(200, "user", <<u2>>))

MapPatchUser(s, req) ==
    LET user == MapGet(s.users, ParamId(req))
    IN IF user = <<>> THEN Out(s, ErrorRes(404, "user not found"))
       ELSE LET u1 == IF req.body.name # Undefined
                      THEN [user[1] EXCEPT !.name = req.body.name] ELSE user[1]
                u2 == IF req.body.email # Undefined
                      THEN [u1 EXCEPT !.email = req.body.email] ELSE u1
            IN Out([s EXCEPT !.users = MapSet(s.users, u2)], UsersRes(200, "user", <<u2>>))

\* the cascade loop keeps every todo
MapCascade_none(todos, i, id) == todos

\* for (const [id, todo] of todos) if (todo.userId === req.params.id) todos.delete(id)
\* i: the place of the entry the iterator is at
RECURSIVE MapCascade(_, _, _)
MapCascade(todos, i, id) ==
    IF i > Len(todos) THEN todos
    ELSE IF todos[i].userId = Str(id)
         THEN MapCascade(MapDelete(todos, todos[i].id), i, id)
         ELSE MapCascade(todos, i + 1, id)

MapDeleteUser(s, req) ==
    LET user == MapGet(s.users, ParamId(req))
    IN IF user = <<>> THEN Out(s, ErrorRes(404, "user not found"))
       ELSE Out([s EXCEPT !.users = MapDelete(s.users, ParamId(req)),
                          !.todos = MapCascade(s.todos, 1, ParamId(req))],
                Res(200, "ok"))

MapGetTodos(s, req) == Out(s, TodosRes(200, "todos", FilterTodos(s.todos, req.query)))

\* the user is not looked up
MapPostTodos_unchecked(s, req) ==
    IF ~Truthy(req.body.userId) \/ ~Truthy(req.body.title)
    THEN Out(s, ErrorRes(400, "userId and title are required"))
    ELSE LET m == makeId(s.nextId)
             todo == Todo(m.id, req.body.userId, req.body.title,
                          Bool(Truthy(req.body.completed)))
         IN Out([s EXCEPT !.nextId = m.next, !.todos = MapSet(s.todos, todo)],
                TodosRes(201, "todo", <<todo>>))

\* the id is taken before the user is looked up
MapPostTodos_idFirst(s, req) ==
    IF ~Truthy(req.body.userId) \/ ~Truthy(req.body.title)
    THEN Out(s, ErrorRes(400, "userId and title are required"))
    ELSE LET m == makeId(s.nextId)
             todo == Todo(m.id, req.body.userId, req.body.title,
                          Bool(Truthy(req.body.completed)))
         IN IF MapGetValue(s.users, req.body.userId) = <<>>
            THEN Out([s EXCEPT !.nextId = m.next], ErrorRes(400, "invalid userId"))
            ELSE Out([s EXCEPT !.nextId = m.next, !.todos = MapSet(s.todos, todo)],
                     TodosRes(201, "todo", <<todo>>))

MapPostTodos(s, req) ==
    IF ~Truthy(req.body.userId) \/ ~Truthy(req.body.title)
    THEN Out(s, ErrorRes(400, "userId and title are required"))
    ELSE IF MapGetValue(s.users, req.body.userId) = <<>>
    THEN Out(s, ErrorRes(400, "invalid userId"))
    ELSE LET m == makeId(s.nextId)
             todo == Todo(m.id, req.body.userId, req.body.title,
                          Bool(Truthy(req.body.completed)))
         IN Out([s EXCEPT !.nextId = m.next, !.todos = MapSet(s.todos, todo)],
                TodosRes(201, "todo", <<todo>>))

MapGetTodo(s, req) ==
    LET todo == MapGet(s.todos, ParamId(req))
    IN IF todo = <<>> THEN Out(s, ErrorRes(404, "todo not found"))
       ELSE Out(s, TodosRes(200, "todo", todo))

\* completed is stored as it was sent (todo.completed = completed)
MapPatchTodo_uncoerced(s, req) ==
    LET todo == MapGet(s.todos, ParamId(req))
    IN IF todo = <<>> THEN Out(s, ErrorRes(404, "todo not found"))
       ELSE LET t1 == IF req.body.title # Undefined
                      THEN [todo[1] EXCEPT !.title = req.body.title] ELSE todo[1]
                t2 == IF req.body.completed # Undefined
                      THEN [t1 EXCEPT !.completed = req.body.completed]
                      ELSE t1
            IN IF req.body.userId # Undefined
               THEN IF MapGetValue(s.users, req.body.userId) = <<>>
                    THEN Out([s EXCEPT !.todos = MapSet(s.todos, t2)],
                             ErrorRes(400, "invalid userId"))
                    ELSE LET t3 == [t2 EXCEPT !.userId = req.body.userId]
                         IN Out([s EXCEPT !.todos = MapSet(s.todos, t3)],
                                TodosRes(200, "todo", <<t3>>))
               ELSE Out([s EXCEPT !.todos = MapSet(s.todos, t2)],
                        TodosRes(200, "todo", <<t2>>))

\* title and completed are assigned before userId is looked up
MapPatchTodo(s, req) ==
    LET todo == MapGet(s.todos, ParamId(req))
    IN IF todo = <<>> THEN Out(s, ErrorRes(404, "todo not found"))
       ELSE LET t1 == IF req.body.title # Undefined
                      THEN [todo[1] EXCEPT !.title = req.body.title] ELSE todo[1]
                t2 == IF req.body.completed # Undefined
                      THEN [t1 EXCEPT !.completed = Bool(Truthy(req.body.completed))]
                      ELSE t1
            IN IF req.body.userId # Undefined
               THEN IF MapGetValue(s.users, req.body.userId) = <<>>
                    THEN Out([s EXCEPT !.todos = MapSet(s.todos, t2)],
                             ErrorRes(400, "invalid userId"))
                    ELSE LET t3 == [t2 EXCEPT !.userId = req.body.userId]
                         IN Out([s EXCEPT !.todos = MapSet(s.todos, t3)],
                                TodosRes(200, "todo", <<t3>>))
               ELSE Out([s EXCEPT !.todos = MapSet(s.todos, t2)],
                        TodosRes(200, "todo", <<t2>>))

MapDeleteTodo(s, req) ==
    LET todo == MapGet(s.todos, ParamId(req))
    IN IF todo = <<>> THEN Out(s, ErrorRes(404, "todo not found"))
       ELSE Out([s EXCEPT !.todos = MapDelete(s.todos, ParamId(req))], Res(200, "ok"))

\* the recent list is read from the slot under the write index, not before it
MapStatsRecent_offByOne(metrics) ==
    LET count == Min(metrics.recentCount, RECENT_SIZE)
        n == Min(RECENT_SHOWN, count)
        slot(i) == metrics.recent[JsRem(metrics.recentIndex - i + RECENT_SIZE, RECENT_SIZE)]
        F[i \in 0..n] == IF i = n THEN <<>> ELSE slot(i) \o F[i + 1]
    IN F[0]

\* the loop over i < Math.min(20, count): the filled slots, newest first
MapStatsRecent(metrics) ==
    LET count == Min(metrics.recentCount, RECENT_SIZE)
        n == Min(RECENT_SHOWN, count)
        slot(i) == metrics.recent[JsRem(metrics.recentIndex - 1 - i + RECENT_SIZE, RECENT_SIZE)]
        F[i \in 0..n] == IF i = n THEN <<>> ELSE slot(i) \o F[i + 1]
    IN F[0]

MapStats(s, req) == Out(s, StatsRes(s.metrics, MapStatsRecent(s.metrics)))

\* the write index is never wrapped
MapRecord_noWrap(metrics, req, route, status, t0, t1) ==
    [totalRequests |-> metrics.totalRequests + 1,
     byRoute |-> BumpRoute(metrics.byRoute, routeKey(req, route), status, t1 - t0),
     recent |-> (metrics.recentIndex :> <<RecentEntry(req, status, t0, t1)>>) @@ metrics.recent,
     recentIndex |-> metrics.recentIndex + 1,
     recentCount |-> IF metrics.recentCount < RECENT_SIZE
                     THEN metrics.recentCount + 1 ELSE metrics.recentCount]

\* the finish listener
MapRecord(metrics, req, route, status, t0, t1) ==
    [totalRequests |-> metrics.totalRequests + 1,
     byRoute |-> BumpRoute(metrics.byRoute, routeKey(req, route), status, t1 - t0),
     recent |-> [metrics.recent EXCEPT
                    ![metrics.recentIndex] = <<RecentEntry(req, status, t0, t1)>>],
     recentIndex |-> JsRem(metrics.recentIndex + 1, RECENT_SIZE),
     recentCount |-> IF metrics.recentCount < RECENT_SIZE
                     THEN metrics.recentCount + 1 ELSE metrics.recentCount]

\* a mutating route: the guard, then the handler
MapGuarded(s, req, handled_) ==
    LET g == apiKeyRequired(req) IN IF g # <<>> THEN Out(s, g[1]) ELSE handled_

\* the route table of the Map variant
MapServe(s, req, route) ==
    CASE req.method = "GET" /\ route = "/api/users" -> MapGetUsers(s, req)
      [] req.method = "POST" /\ route = "/api/users" ->
            MapGuarded(s, req, MapPostUsers(s, req))
      [] req.method = "GET" /\ route = "/api/users/:id" -> MapGetUser(s, req)
      [] req.method = "PATCH" /\ route = "/api/users/:id" ->
            MapGuarded(s, req, MapPatchUser(s, req))
      [] req.method = "DELETE" /\ route = "/api/users/:id" ->
            MapGuarded(s, req, MapDeleteUser(s, req))
      [] req.method = "GET" /\ route = "/api/todos" -> MapGetTodos(s, req)
      [] req.method = "POST" /\ route = "/api/todos" ->
            MapGuarded(s, req, MapPostTodos(s, req))
      [] req.method = "GET" /\ route = "/api/todos/:id" -> MapGetTodo(s, req)
      [] req.method = "PATCH" /\ route = "/api/todos/:id" ->
            MapGuarded(s, req, MapPatchTodo(s, req))
      [] req.method = "DELETE" /\ route = "/api/todos/:id" ->
            MapGuarded(s, req, MapDeleteTodo(s, req))
      [] req.method = "GET" /\ route = "/api/_stats" -> MapStats(s, req)
      [] OTHER -> PlainRoute(s, req, route)

(***************************************************************************)
(* The array variant (src/server.js)                                       *)
(***************************************************************************)
\* Array.prototype.findIndex(x => x.id === id), 1-based; 0 for -1
FindIndex(a, id) ==
    IF \E i \in 1..Len(a) : a[i].id = id
    THEN CHOOSE i \in 1..Len(a) : a[i].id = id /\ \A j \in 1..(i - 1) : a[j].id # id
    ELSE 0

\* Array.prototype.find(x => x.id === id): <<>> for undefined
Find(a, id) == IF FindIndex(a, id) = 0 THEN <<>> ELSE <<a[FindIndex(a, id)]>>

\* find with any value compared by ===: only a string equals an id
FindValue(a, x) == IF x.t = "string" THEN Find(a, x.v) ELSE <<>>

ArrGetUsers(s, req) ==
    IF QueryThrows(req.query.q) THEN Thrown(s)
    ELSE LET q == QueryText(req.query.q)
         IN IF q # ""
            THEN IF \E i \in 1..Len(s.users) : UserMatchThrows(s.users[i], q)
                 THEN Thrown(s)
                 ELSE Out(s, UsersRes(200, "users",
                                      SelectSeq(s.users, LAMBDA u : UserMatches(u, q))))
            ELSE Out(s, UsersRes(200, "users", s.users))

ArrPostUsers(s, req) ==
    IF ~Truthy(req.body.name) \/ ~Truthy(req.body.email)
    THEN Out(s, ErrorRes(400, "name and email are required"))
    ELSE LET m == makeId(s.nextId)
             user == User(m.id, req.body.name, req.body.email)
         IN Out([s EXCEPT !.nextId = m.next, !.users = Append(s.users, user)],
                UsersRes(201, "user", <<user>>))

\* the id is taken for a place in the array: users[Number(req.params.id) - 1]
ArrGetUser_byPlace(s, req) ==
    LET at == { i \in 1..Len(s.users) : String(i) = ParamId(req) }
    IN IF at = {} THEN Out(s, ErrorRes(404, "user not found"))
       ELSE Out(s, UsersRes(200, "user", <<s.users[CHOOSE i \in at : TRUE]>>))

ArrGetUser(s, req) ==
    LET user == Find(s.users, ParamId(req))
    IN IF user = <<>> THEN Out(s, ErrorRes(404, "user not found"))
       ELSE Out(s, UsersRes(200, "user", user))

ArrPatchUser(s, req) ==
    LET i == FindIndex(s.users, ParamId(req))
    IN IF i = 0 THEN Out(s, ErrorRes(404, "user not found"))
       ELSE LET u1 == IF req.body.name # Undefined
                      THEN [s.users[i] EXCEPT !.name = req.body.name] ELSE s.users[i]
                u2 == IF req.body.email # Undefined
                      THEN [u1 EXCEPT !.email = req.body.email] ELSE u1
            IN Out([s EXCEPT !.users[i] = u2], UsersRes(200, "user", <<u2>>))

\* the loop stops before the first entry (i > 0)
RECURSIVE ArrCascade_skipFirst(_, _, _)
ArrCascade_skipFirst(todos, i, id) ==
    IF i < 2 THEN todos
    ELSE IF todos[i].userId = Str(id)
         THEN ArrCascade_skipFirst(Splice1(todos, i), i - 1, id)
         ELSE ArrCascade_skipFirst(todos, i - 1, id)

\* for (let i = todos.length - 1; i >= 0; i--)
\*   if (todos[i].userId === removed.id) todos.splice(i, 1);   (i is 1-based here)
RECURSIVE ArrCascade(_, _, _)
ArrCascade(todos, i, id) ==
    IF i < 1 THEN todos
    ELSE IF todos[i].userId = Str(id)
         THEN ArrCascade(Splice1(todos, i), i - 1, id)
         ELSE ArrCascade(todos, i - 1, id)

ArrDeleteUser(s, req) ==
    LET idx == FindIndex(s.users, ParamId(req))
    IN IF idx = 0 THEN Out(s, ErrorRes(404, "user not found"))
       ELSE LET removed == s.users[idx]
            IN Out([s EXCEPT !.users = Splice1(s.users, idx),
                             !.todos = ArrCascade(s.todos, Len(s.todos), removed.id)],
                   Res(200, "ok"))

\* the filters are applied to the store's array, not to a copy of it
ArrGetTodos_inPlace(s, req) ==
    Out([s EXCEPT !.todos = FilterTodos(s.todos, req.query)],
        TodosRes(200, "todos", FilterTodos(s.todos, req.query)))

ArrGetTodos(s, req) == Out(s, TodosRes(200, "todos", FilterTodos(s.todos, req.query)))

ArrPostTodos(s, req) ==
    IF ~Truthy(req.body.userId) \/ ~Truthy(req.body.title)
    THEN Out(s, ErrorRes(400, "userId and title are required"))
    ELSE IF FindValue(s.users, req.body.userId) = <<>>
    THEN Out(s, ErrorRes(400, "invalid userId"))
    ELSE LET m == makeId(s.nextId)
             todo == Todo(m.id, req.body.userId, req.body.title,
                          Bool(Truthy(req.body.completed)))
         IN Out([s EXCEPT !.nextId = m.next, !.todos = Append(s.todos, todo)],
                TodosRes(201, "todo", <<todo>>))

ArrGetTodo(s, req) ==
    LET todo == Find(s.todos, ParamId(req))
    IN IF todo = <<>> THEN Out(s, ErrorRes(404, "todo not found"))
       ELSE Out(s, TodosRes(200, "todo", todo))

\* title and completed are assigned before userId is looked up
ArrPatchTodo(s, req) ==
    LET i == FindIndex(s.todos, ParamId(req))
    IN IF i = 0 THEN Out(s, ErrorRes(404, "todo not found"))
       ELSE LET t1 == IF req.body.title # Undefined
                      THEN [s.todos[i] EXCEPT !.title = req.body.title] ELSE s.todos[i]
                t2 == IF req.body.completed # Undefined
                      THEN [t1 EXCEPT !.completed = Bool(Truthy(req.body.completed))]
                      ELSE t1
            IN IF req.body.userId # Undefined
               THEN IF FindValue(s.users, req.body.userId) = <<>>
                    THEN Out([s EXCEPT !.todos[i] = t2], ErrorRes(400, "invalid userId"))
                    ELSE LET t3 == [t2 EXCEPT !.userId = req.body.userId]
                         IN Out([s EXCEPT !.todos[i] = t3], TodosRes(200, "todo", <<t3>>))
               ELSE Out([s EXCEPT !.todos[i] = t2], TodosRes(200, "todo", <<t2>>))

ArrDeleteTodo(s, req) ==
    LET idx == FindIndex(s.todos, ParamId(req))
    IN IF idx = 0 THEN Out(s, ErrorRes(404, "todo not found"))
       ELSE Out([s EXCEPT !.todos = Splice1(s.todos, idx)], Res(200, "ok"))

\* metrics.recent.slice(-20).reverse()
ArrStatsRecent(metrics) == Reverse(SliceLast(metrics.recent, RECENT_SHOWN))

ArrStats(s, req) == Out(s, StatsRes(s.metrics, ArrStatsRecent(s.metrics)))

\* the finish listener: push, then shift once the list is longer than 100
ArrRecord(metrics, req, route, status, t0, t1) ==
    LET pushed == Append(metrics.recent, RecentEntry(req, status, t0, t1))
    IN [totalRequests |-> metrics.totalRequests + 1,
        byRoute |-> BumpRoute(metrics.byRoute, routeKey(req, route), status, t1 - t0),
        recent |-> IF Len(pushed) > RECENT_SIZE THEN Tail(pushed) ELSE pushed]

ArrGuarded(s, req, handled_) ==
    LET g == apiKeyRequired(req) IN IF g # <<>> THEN Out(s, g[1]) ELSE handled_

\* the route table of the array variant
ArrServe(s, req, route) ==
    CASE req.method = "GET" /\ route = "/api/users" -> ArrGetUsers(s, req)
      [] req.method = "POST" /\ route = "/api/users" ->
            ArrGuarded(s, req, ArrPostUsers(s, req))
      [] req.method = "GET" /\ route = "/api/users/:id" -> ArrGetUser(s, req)
      [] req.method = "PATCH" /\ route = "/api/users/:id" ->
            ArrGuarded(s, req, ArrPatchUser(s, req))
      [] req.method = "DELETE" /\ route = "/api/users/:id" ->
            ArrGuarded(s, req, ArrDeleteUser(s, req))
      [] req.method = "GET" /\ route = "/api/todos" -> ArrGetTodos(s, req)
      [] req.method = "POST" /\ route = "/api/todos" ->
            ArrGuarded(s, req, ArrPostTodos(s, req))
      [] req.method = "GET" /\ route = "/api/todos/:id" -> ArrGetTodo(s, req)
      [] req.method = "PATCH" /\ route = "/api/todos/:id" ->
            ArrGuarded(s, req, ArrPatchTodo(s, req))
      [] req.method = "DELETE" /\ route = "/api/todos/:id" ->
            ArrGuarded(s, req, ArrDeleteTodo(s, req))
      [] req.method = "GET" /\ route = "/api/_stats" -> ArrStats(s, req)
      [] OTHER -> PlainRoute(s, req, route)

(***************************************************************************)
(* The requests of the model                                               *)
(***************************************************************************)
Get(path, query) == Request("GET", path, query, NoHeaders, NoBody)

Body(name, email, userId, title, done) ==
    [name |-> name, email |-> email, userId |-> userId, title |-> title,
     completed |-> done]

UserBody(name, email) == Body(name, email, Undefined, Undefined, Undefined)

TodoBody(userId, title, done) == Body(Undefined, Undefined, userId, title, done)

WithKey(key) == [xApiKey |-> key, authorization |-> ""]

\* no key, a wrong key, the configured key
KeyHeaders == { NoHeaders, WithKey("wrong"), WithKey(API_KEY) }

PostUserBodies ==
    { UserBody(Str("Cy"), Str("cy@example.com")),
      UserBody(Num("7"), Str("cy@example.com")),
      UserBody(Str(""), Str("cy@example.com")),
      UserBody(Str("Cy"), Undefined),
      NoBody }

PatchUserBodies ==
    { NoBody,
      UserBody(Str("Cy"), Undefined),
      UserBody(Str(""), Undefined),
      UserBody(Undefined, Str("al@example.org")),
      UserBody(Str("Cy"), Str("al@example.org")) }

PostTodoBodies ==
    { TodoBody(Str("2"), Str("Call"), Undefined),
      TodoBody(Str("2"), Str("Call"), Bool(TRUE)),
      TodoBody(Str("9"), Str("Call"), Undefined),
      TodoBody(Num("2"), Str("Call"), Undefined),
      TodoBody(Str("2"), Undefined, Undefined),
      TodoBody(Undefined, Str("Call"), Undefined),
      TodoBody(Str("9"), Undefined, Undefined) }

PatchTodoBodies ==
    { NoBody,
      TodoBody(Undefined, Str("Call"), Undefined),
      TodoBody(Undefined, Undefined, Bool(TRUE)),
      TodoBody(Str("2"), Undefined, Undefined),
      TodoBody(Str("9"), Undefined, Undefined),
      TodoBody(Str("9"), Str("Call"), Undefined),
      TodoBody(Str("9"), Undefined, Bool(TRUE)),
      TodoBody(Str("2"), Str("Call"), Bool(TRUE)) }

\* method, path and body of the mutating requests
Mutations ==
    { <<"POST", <<"api", "users">>, b>> : b \in PostUserBodies }
    \cup { <<"PATCH", <<"api", "users", "1">>, b>> : b \in PatchUserBodies }
    \cup { <<"PATCH", <<"api", "users", "9">>, UserBody(Str("Cy"), Undefined)>> }
    \cup { <<"DELETE", <<"api", "users", id>>, NoBody>> : id \in {"1", "2", "9"} }
    \cup { <<"POST", <<"api", "todos">>, b>> : b \in PostTodoBodies }
    \cup { <<"PATCH", <<"api", "todos", "3">>, b>> : b \in PatchTodoBodies }
    \cup { <<"PATCH", <<"api", "todos", "9">>, TodoBody(Undefined, Str("Call"), Undefined)>> }
    \cup { <<"DELETE", <<"api", "todos", id>>, NoBody>> : id \in {"3", "9"} }

Reads ==
    { Get(<<"api", "health">>, NoQuery), Get(<<"api", "_stats">>, NoQuery),
      Get(<<>>, NoQuery), Get(<<"style.css">>, NoQuery),
      Get(<<"nope">>, [NoQuery EXCEPT !.q = Str("x")]) }
    \cup { Get(<<"api", "users">>, [NoQuery EXCEPT !.q = q]) :
              q \in {Undefined, Str("ALI"), Arr("a")} }
    \cup { Get(<<"api", "users", id>>, NoQuery) : id \in {"1", "9"} }
    \cup { Get(<<"api", "todos">>, [NoQuery EXCEPT !.userId = u, !.completed = c]) :
              u \in {Undefined, Str("1")}, c \in {Undefined, Str("true")} }
    \cup { Get(<<"api", "todos", id>>, NoQuery) : id \in {"3", "9"} }

\* every request of the model: the reads, and each mutation under each key
WideRequests ==
    Reads \cup { Request(m[1], m[2], NoQuery, h, m[3]) : m \in Mutations, h \in KeyHeaders }

Keyed(method, path, body) == Request(method, path, NoQuery, WithKey(API_KEY), body)

\* the requests that sequences are built from
Requests ==
    { Get(<<"api", "users", "1">>, NoQuery), Get(<<"api", "users", "9">>, NoQuery),
      Get(<<"api", "_stats">>, NoQuery), Get(<<"style.css">>, NoQuery),
      Get(<<"nope">>, [NoQuery EXCEPT !.q = Str("x")]),
      Get(<<"api", "todos">>, NoQuery),
      Get(<<"api", "users">>, [NoQuery EXCEPT !.q = Str("ALI")]),
      Keyed("POST", <<"api", "users">>, UserBody(Str("Cy"), Str("cy@example.com"))),
      Keyed("PATCH", <<"api", "users", "1">>, UserBody(Str(""), Undefined)),
      Keyed("DELETE", <<"api", "users", "1">>, NoBody),
      Keyed("DELETE", <<"api", "users", "2">>, NoBody),
      Keyed("DELETE", <<"api", "users", "6">>, NoBody),
      Keyed("POST", <<"api", "todos">>, TodoBody(Str("2"), Str("Call"), Undefined)),
      Keyed("POST", <<"api", "todos">>, TodoBody(Str("6"), Str("Call"), Bool(TRUE))),
      Keyed("POST", <<"api", "todos">>, TodoBody(Str("9"), Str("Call"), Undefined)),
      Keyed("POST", <<"api", "todos">>, TodoBody(Str("2"), Undefined, Undefined)),
      Keyed("PATCH", <<"api", "todos", "3">>, TodoBody(Str("2"), Undefined, Undefined)),
      Keyed("PATCH", <<"api", "todos", "3">>, TodoBody(Str("9"), Str("Call"), Undefined)),
      Keyed("PATCH", <<"api", "todos", "5">>, TodoBody(Str("1"), Undefined, Bool(TRUE))),
      Keyed("DELETE", <<"api", "todos", "3">>, NoBody),
      Keyed("DELETE", <<"api", "todos", "6">>, NoBody),
      Request("DELETE", <<"api", "users", "1">>, NoQuery, WithKey("wrong"), NoBody),
      Request("POST", <<"api", "todos">>, NoQuery, NoHeaders,
              TodoBody(Str("2"), Str("Call"), Undefined)),
      Request("PATCH", <<"api", "todos", "3">>, NoQuery, WithKey("wrong"),
              TodoBody(Undefined, Str("Call"), Undefined)) }

\* header values for the guard
XApiKeyValues == { "", API_KEY, "wrong", "ApiKey " \o API_KEY, "Dev-Api-Key-Change-Me" }

AuthorizationValues ==
    { "", "ApiKey " \o API_KEY, "apikey " \o API_KEY, "APIKEY  " \o API_KEY,
      "aPiKeY " \o API_KEY,
      "ApiKey\t" \o API_KEY, "ApiKey wrong", "ApiKey " \o API_KEY \o " x",
      "Bearer " \o API_KEY, "ApiKey", "ApiKey" \o API_KEY, API_KEY,
      "xApiKey " \o API_KEY, "ApiKey x " \o API_KEY, "ApiKeys " \o API_KEY }

AuthRequests ==
    { Request(m[1], m[2], NoQuery, [xApiKey |-> x, authorization |-> a], m[3]) :
        m \in { <<"DELETE", <<"api", "todos", "3">>, NoBody>>,
                <<"POST", <<"api", "users">>, UserBody(Str("Cy"), Str("cy@example.com"))>> },
        x \in XApiKeyValues, a \in AuthorizationValues }

StatsRequest == Get(<<"api", "_stats">>, NoQuery)

\* requests to several routes, with several statuses, that change and list the store
MetricsRequests ==
    { StatsRequest,
      Get(<<"api", "users">>, NoQuery),
      Get(<<"api", "todos">>, NoQuery),
      Get(<<"nope">>, [NoQuery EXCEPT !.q = Str("x")]),
      Keyed("PATCH", <<"api", "users", "1">>, UserBody(Str("Cy"), Undefined)),
      Keyed("DELETE", <<"api", "users", "1">>, NoBody) }

\* JSON values sent as completed: booleans, strings, numbers, nothing
CompletedValues ==
    { Undefined, Bool(TRUE), Bool(FALSE), Str("false"), Str(""), Str("yes"),
      Num("0"), Num("1") }

\* creates and updates with every such value, and the lists by completed
CompletedRequests ==
    { Keyed("POST", <<"api", "todos">>, TodoBody(Str("2"), Str("Call"), c)) :
        c \in CompletedValues }
    \cup { Keyed("PATCH", <<"api", "todos", id>>, TodoBody(Undefined, Undefined, c)) :
             id \in {"3", "4"}, c \in CompletedValues }
    \cup { Get(<<"api", "todos">>, [NoQuery EXCEPT !.completed = c]) :
             c \in {Undefined, Str("true"), Str("false")} }

\* the filters of GET /api/todos: userId and completed, given or not
TodoQueries ==
    { [NoQuery EXCEPT !.userId = u, !.completed = c] :
        u \in {Undefined, Str("1"), Str("2"), Str("9")},
        c \in {Undefined, Str("true"), Str("false")} }
    \cup { [NoQuery EXCEPT !.userId = Str("")], [NoQuery EXCEPT !.completed = Str("yes")] }

\* the searches of GET /api/users
UserQueries ==
    { [NoQuery EXCEPT !.q = q] :
        q \in {Undefined, Str(""), Str("ALI"), Str("example"), Str("cy"), Arr("a")} }

\* mutations with the key, and the reads that look at what they left
ListRequests ==
    { Keyed("POST", <<"api", "users">>, b) :
        b \in { UserBody(Str("Cy"), Str("cy@example.com")),
                UserBody(Num("7"), Str("cy@example.com")),
                UserBody(Str(""), Str("cy@example.com")) } }
    \cup { Keyed("PATCH", <<"api", "users", "2">>, b) : b \in PatchUserBodies }
    \cup { Keyed("DELETE", <<"api", "users", "1">>, NoBody),
           Keyed("POST", <<"api", "todos">>, TodoBody(Str("2"), Str("Call"), Bool(TRUE))),
           Keyed("PATCH", <<"api", "todos", "3">>, TodoBody(Undefined, Undefined, Bool(TRUE))),
           Keyed("DELETE", <<"api", "todos", "4">>, NoBody) }
    \cup { Get(<<"api", "users">>, q) : q \in UserQueries }
    \cup { Get(<<"api", "users", id>>, NoQuery) : id \in {"2", "6", "9"} }
    \cup { Get(<<"api", "todos">>, q) : q \in TodoQueries }
    \cup { Get(<<"api", "todos", id>>, NoQuery) : id \in {"3", "6", "9"} }

(***************************************************************************)
(* State and steps                                                         *)
(***************************************************************************)
\* users, todos and the id counter of a server
Store(s) == [nextId |-> s.nextId, users |-> s.users, todos |-> s.todos]

\* the id of the entity a 201 response carries
CreatedIds(res) ==
    IF res.status = 201
    THEN { res.users[i].id : i \in 1..Len(res.users) }
         \cup { res.todos[i].id : i \in 1..Len(res.todos) }
    ELSE {}

NoRequest == Request("", <<>>, NoQuery, NoHeaders, NoBody)

Init ==
    /\ arr = [nextId |-> SeedData.nextId, users |-> SeedData.users,
              todos |-> SeedData.todos, metrics |-> ArrMetrics0]
    /\ map = [nextId |-> SeedData.nextId, users |-> SeedData.users,
              todos |-> SeedData.todos, metrics |-> MapMetrics0]
    /\ inflight = <<>>
    /\ last = [n |-> 0, req |-> NoRequest, route |-> "",
               arr |-> Res(0, ""), map |-> Res(0, ""),
               preArr |-> Store(arr), preMap |-> Store(map),
               issuedBefore |-> [arr |-> SeedData.ids, map |-> SeedData.ids]]
    /\ clock = 0
    /\ handled = 0
    /\ completed = 0
    /\ recorded = <<>>
    /\ issued = [arr |-> SeedData.ids, map |-> SeedData.ids]
    /\ running = <<>>

\* the metrics middleware comes after express.static: it sees a request only
\* when express.static calls next()
Listening(req) == ~ServedByStatic(req)

\* One request from the middleware chain to the end of its handler.  The
\* handler runs to completion; the response's 'finish' event comes later.
\* The clock counts tenths of a millisecond.
Handle(req) ==
    LET route == IF Listening(req) THEN RouteOf(req) ELSE ""
        a == IF Listening(req) THEN ArrServe(arr, req, route) ELSE Out(arr, Res(200, "file"))
        m == IF Listening(req) THEN MapServe(map, req, route) ELSE Out(map, Res(200, "file"))
    IN /\ arr' = a.s
       /\ map' = m.s
       /\ inflight' = Append(inflight,
                        [n |-> handled + 1, req |-> req, route |-> route, t0 |-> clock,
                         arr |-> a.res.status, map |-> m.res.status,
                         listening |-> Listening(req)])
       /\ last' = [n |-> handled + 1, req |-> req, route |-> route,
                   arr |-> a.res, map |-> m.res,
                   preArr |-> Store(arr), preMap |-> Store(map),
                   issuedBefore |-> issued]
       /\ issued' = [arr |-> issued.arr \cup CreatedIds(a.res),
                     map |-> issued.map \cup CreatedIds(m.res)]
       /\ clock' = clock + 7
       /\ handled' = handled + 1
       /\ UNCHANGED <<completed, recorded, running>>

\* The 'finish' event of the i-th response in flight: the listener of the
\* metrics middleware, when one was registered, records the request.
Finish(i) ==
    LET e == inflight[i]
    IN /\ inflight' = Splice1(inflight, i)
       /\ completed' = completed + 1
       /\ clock' = clock + 7
       /\ IF e.listening
          THEN /\ arr' = [arr EXCEPT !.metrics =
                             ArrRecord(@, e.req, e.route, e.arr, e.t0, clock)]
               /\ map' = [map EXCEPT !.metrics =
                             MapRecord(@, e.req, e.route, e.map, e.t0, clock)]
               /\ recorded' = Append(recorded,
                                [n |-> e.n, ts |-> clock, method |-> e.req.method,
                                 path |-> originalUrl(e.req), route |-> e.route,
                                 t0 |-> e.t0, arr |-> e.arr, map |-> e.map])
          ELSE UNCHANGED <<arr, map, recorded>>
       /\ UNCHANGED <<last, handled, issued, running>>

Serve == handled < MaxRequests /\ \E req \in Requests : Handle(req)

Done == \E i \in 1..Len(inflight) : Finish(i)

Next == Serve \/ Done

Spec == Init /\ [][Next]_vars

\* every request of the model, from the seed data on
ServeWide == handled < MaxWideRequests /\ \E req \in WideRequests \cup Requests : Handle(req)

NextWide == ServeWide \/ Done

SpecWide == Init /\ [][NextWide]_vars

\* one mutating request under every pair of key headers
ServeAuth == handled < MaxAuthRequests /\ \E req \in AuthRequests : Handle(req)

NextAuth == ServeAuth \/ Done

SpecAuth == Init /\ [][NextAuth]_vars

\* the dashboard polling /api/_stats, one request at a time
Poll == handled < MaxPolls /\ inflight = <<>> /\ Handle(StatsRequest)

NextRecent == Poll \/ Done

SpecRecent == Init /\ [][NextRecent]_vars

\* one client: a request is sent when the response before it has finished
ServeList ==
    /\ handled < MaxListRequests /\ inflight = <<>>
    /\ \E req \in ListRequests : Handle(req)

NextLists == ServeList \/ Done

SpecLists == Init /\ [][NextLists]_vars

\* a few requests of several kinds, one at a time
ServeMixed ==
    /\ handled < MaxMixed /\ inflight = <<>>
    /\ \E req \in MetricsRequests : Handle(req)

\* from then on the dashboard polls
PollOn == handled >= MaxMixed /\ Poll

NextMetrics == ServeMixed \/ PollOn \/ Done

SpecMetrics == Init /\ [][NextMetrics]_vars

\* one client sending todos with completed values of every type
ServeCompleted ==
    /\ handled < MaxCompletedRequests /\ inflight = <<>>
    /\ \E req \in CompletedRequests : Handle(req)

NextCompleted == ServeCompleted \/ Done

SpecCompleted == Init /\ [][NextCompleted]_vars

(***************************************************************************)
(* The handler of DELETE /api/users/:id, one statement per step.  running  *)
(* is <<>> when no handler is on the call stack, else <<the run>> of the   *)
(* delete handler that is.                                                 *)
(***************************************************************************)
\* the requests around a cascade
StepRequests ==
    { Keyed("DELETE", <<"api", "users", id>>, NoBody) : id \in {"1", "2", "9"} }
    \cup { Request("DELETE", <<"api", "users", "1">>, NoQuery, WithKey("wrong"), NoBody),
           Keyed("POST", <<"api", "todos">>, TodoBody(Str("1"), Str("Call"), Undefined)),
           Keyed("PATCH", <<"api", "todos", "5">>, TodoBody(Str("1"), Undefined, Undefined)),
           Get(<<"api", "todos">>, NoQuery),
           Get(<<"api", "todos">>, [NoQuery EXCEPT !.userId = Str("1")]),
           Get(<<"api", "users", "1">>, NoQuery),
           Get(<<"api", "todos", "3">>, NoQuery) }

\* a handler is a function without await: it is entered only when no other
\* handler is running, and it runs to its end
Idle_reentrant == TRUE

Idle == running = <<>>

\* the request gets past the guard and the 404 check of the delete handler
StartsCascade(req) ==
    /\ req.method = "DELETE" /\ RouteOf(req) = "/api/users/:id"
    /\ apiKeyRequired(req) = <<>>
    /\ MapGet(map.users, ParamId(req)) # <<>>
    /\ FindIndex(arr.users, ParamId(req)) # 0

\* users.delete(req.params.id) / users.splice(idx, 1): the user is gone, the
\* loops over todos are about to start
BeginDeleteUser(req) ==
    LET idx == FindIndex(arr.users, ParamId(req))
        removed == arr.users[idx]
    IN /\ StartsCascade(req)
       /\ arr' = [arr EXCEPT !.users = Splice1(arr.users, idx)]
       /\ map' = [map EXCEPT !.users = MapDelete(map.users, ParamId(req))]
       /\ running' = <<[n |-> handled + 1, req |-> req, route |-> RouteOf(req),
                        t0 |-> clock, id |-> removed.id,
                        iArr |-> Len(arr.todos), iMap |-> 1,
                        preArr |-> Store(arr), preMap |-> Store(map)]>>
       /\ handled' = handled + 1
       /\ clock' = clock + 7
       /\ UNCHANGED <<inflight, last, completed, recorded, issued>>

\* one pass of the loop body: if (todos[i].userId === removed.id) todos.splice(i, 1)
ArrCascadeStep(todos, i, id) ==
    IF todos[i].userId = Str(id)
    THEN [todos |-> Splice1(todos, i), i |-> i - 1]
    ELSE [todos |-> todos, i |-> i - 1]

\* one pass of the loop body: if (todo.userId === req.params.id) todos.delete(id);
\* after a delete the next entry is at the same place
MapCascadeStep(todos, i, id) ==
    IF todos[i].userId = Str(id)
    THEN [todos |-> MapDelete(todos, todos[i].id), i |-> i]
    ELSE [todos |-> todos, i |-> i + 1]

ArrLoopDone(r) == r.iArr < 1

MapLoopDone(r) == r.iMap > Len(map.todos)

\* the next pass of the cascade loop of each variant
CascadeStep ==
    /\ running # <<>>
    /\ LET r == running[1]
           a == IF ArrLoopDone(r) THEN [todos |-> arr.todos, i |-> r.iArr]
                ELSE ArrCascadeStep(arr.todos, r.iArr, r.id)
           m == IF MapLoopDone(r) THEN [todos |-> map.todos, i |-> r.iMap]
                ELSE MapCascadeStep(map.todos, r.iMap, ParamId(r.req))
       IN /\ ~(ArrLoopDone(r) /\ MapLoopDone(r))
          /\ arr' = [arr EXCEPT !.todos = a.todos]
          /\ map' = [map EXCEPT !.todos = m.todos]
          /\ running' = <<[r EXCEPT !.iArr = a.i, !.iMap = m.i]>>
    /\ UNCHANGED <<inflight, last, clock, handled, completed, recorded, issued>>

\* res.json({ ok: true }) after the loop: the handler returns
EndDeleteUser ==
    /\ running # <<>>
    /\ LET r == running[1]
       IN /\ ArrLoopDone(r) /\ MapLoopDone(r)
          /\ inflight' = Append(inflight,
                           [n |-> r.n, req |-> r.req, route |-> r.route, t0 |-> r.t0,
                            arr |-> 200, map |-> 200, listening |-> TRUE])
          /\ last' = [n |-> r.n, req |-> r.req, route |-> r.route,
                      arr |-> Res(200, "ok"), map |-> Res(200, "ok"),
                      preArr |-> r.preArr, preMap |-> r.preMap,
                      issuedBefore |-> issued]
    /\ running' = <<>>
    /\ clock' = clock + 7
    /\ UNCHANGED <<arr, map, handled, completed, recorded, issued>>

\* a delete that gets to its cascade is entered
StartDelete ==
    /\ handled < MaxStepRequests /\ Idle
    /\ \E req \in StepRequests : BeginDeleteUser(req)

\* any other request: its handler from entry to return
ServeSteps ==
    /\ handled < MaxStepRequests /\ Idle
    /\ \E req \in StepRequests : ~StartsCascade(req) /\ Handle(req)

\* a 'finish' listener is a callback like any other
DoneSteps == Idle /\ Done

NextSteps == StartDelete \/ CascadeStep \/ EndDeleteUser \/ ServeSteps \/ DoneSteps

SpecSteps == Init /\ [][NextSteps]_vars

(***************************************************************************)
(* Vocabulary of the properties                                            *)
(***************************************************************************)
Variants == {"arr", "map"}

\* the server of a variant now, its store before the last request, its last response
Cur(v) == IF v = "arr" THEN arr ELSE map

Pre(v) == IF v = "arr" THEN last.preArr ELSE last.preMap

LastRes(v) == IF v = "arr" THEN last.arr ELSE last.map

LastIs(method, route) == last.req.method = method /\ last.route = route

\* the last request carries the configured key in X-API-Key (no Authorization)
HasKey == last.req.headers = WithKey(API_KEY)

\* the last request carries no key or a wrong one
LacksKey == last.req.headers \in { NoHeaders, WithKey("wrong") }

UserIds(store) == { store.users[i].id : i \in 1..Len(store.users) }

TodoIds(store) == { store.todos[i].id : i \in 1..Len(store.todos) }

\* a value names an existing user
NamesUser(store, x) == \E id \in UserIds(store) : x = Str(id)

SameEntities(v) == Cur(v).users = Pre(v).users /\ Cur(v).todos = Pre(v).todos

SameStore(v) == Store(Cur(v)) = Pre(v)

Failed(v, status, msg) == LastRes(v).status = status /\ LastRes(v).error = msg

\* the number an id is the text of
IdValue(id) == CHOOSE n \in 0..99 : String(n) = id

\* the last k elements of a sequence, in order
LastN(s, k) == [i \in 1..k |-> s[Len(s) - k + i]]

RECURSIVE SumOver(_, _)
SumOver(f, S) ==
    IF S = {} THEN 0
    ELSE LET x == CHOOSE y \in S : TRUE IN f[x] + SumOver(f, S \ {x})

(***************************************************************************)
(* C1  Referential integrity: in every reachable state, of either variant, *)
(* every stored Todo's userId is the id of a User that is in the store.    *)
(***************************************************************************)
C1_ReferentialIntegrity ==
    \A v \in Variants :
        \A i \in 1..Len(Cur(v).todos) : NamesUser(Cur(v), Cur(v).todos[i].userId)

\* a user was deleted after an earlier request, and todos of other users remain
C1_Witness ==
    /\ handled = 2
    /\ LastIs("DELETE", "/api/users/:id") /\ last.map.status = 200
    /\ Len(map.todos) > 0 /\ Len(map.todos) < Len(last.preMap.todos)

(***************************************************************************)
(* C2  updateTodo with a userId that names no User answers 400 "invalid    *)
(* userId" and leaves the Todo as it was, title and completed included.    *)
(* (The statement of the claim; the handlers assign title and completed    *)
(* before they look the user up.)                                          *)
(***************************************************************************)
C2_InvalidUserIdLeavesTodo ==
    \A v \in Variants :
        (/\ LastIs("PATCH", "/api/todos/:id") /\ HasKey
         /\ ParamId(last.req) \in TodoIds(Pre(v))
         /\ last.req.body.userId # Undefined
         /\ ~NamesUser(Pre(v), last.req.body.userId))
        => (Failed(v, 400, "invalid userId") /\ Cur(v).todos = Pre(v).todos)

(***************************************************************************)
(* C3  A successful deleteUser(id) removes the User with that id and the   *)
(* Todos whose userId is id, and nothing else: the other Users and Todos   *)
(* stay, unchanged and in their order.  On an absent id it answers 404     *)
(* "user not found" and removes nothing.                                   *)
(***************************************************************************)
C3_DeleteUserExact ==
    \A v \in Variants :
        (LastIs("DELETE", "/api/users/:id") /\ HasKey) =>
            LET id == ParamId(last.req)
            IN IF id \in UserIds(Pre(v))
               THEN /\ LastRes(v).status = 200
                    /\ Cur(v).users = SelectSeq(Pre(v).users, LAMBDA u : u.id # id)
                    /\ Cur(v).todos = SelectSeq(Pre(v).todos, LAMBDA t : t.userId # Str(id))
                    /\ id \notin UserIds(Cur(v))
               ELSE Failed(v, 404, "user not found") /\ SameEntities(v)

\* user 1 went with its two adjacent todos, the todo of user 2 stayed
C3_Witness ==
    /\ LastIs("DELETE", "/api/users/:id") /\ HasKey /\ last.arr.status = 200
    /\ Len(last.preArr.todos) - Len(arr.todos) = 2
    /\ Len(arr.todos) > 0 /\ Len(arr.users) > 0

(***************************************************************************)
(* C4  createTodo with userId or title missing or empty answers 400        *)
(* "userId and title are required"; with both given and a userId that      *)
(* names no User it answers 400 "invalid userId".  Either way Users and    *)
(* Todos are as before.                                                    *)
(***************************************************************************)
C4_CreateTodoRejected ==
    \A v \in Variants :
        (LastIs("POST", "/api/todos") /\ HasKey) =>
            IF ~Truthy(last.req.body.userId) \/ ~Truthy(last.req.body.title)
            THEN Failed(v, 400, "userId and title are required") /\ SameEntities(v)
            ELSE ~NamesUser(Pre(v), last.req.body.userId)
                    => (Failed(v, 400, "invalid userId") /\ SameEntities(v))

\* a well-formed createTodo for an id that is no user's (the number 2, not "2")
C4_Witness ==
    /\ LastIs("POST", "/api/todos") /\ HasKey
    /\ last.req.body.userId = Num("2") /\ Truthy(last.req.body.title)
    /\ Failed("map", 400, "invalid userId") /\ Len(map.todos) = Len(last.preMap.todos)

(***************************************************************************)
(* C5  The guard comes first on every mutating route: without the key a    *)
(* POST, PATCH or DELETE on users or todos is answered 401 whatever its    *)
(* body and target, and users, todos and the id counter stay as they were. *)
(* So the store differs from before only after a request with the key.     *)
(***************************************************************************)
MutatingRoutes == {"/api/users", "/api/users/:id", "/api/todos", "/api/todos/:id"}

C5_GuardFirst ==
    \A v \in Variants :
        /\ (/\ last.req.method \in {"POST", "PATCH", "DELETE"}
            /\ last.route \in MutatingRoutes
            /\ LacksKey)
           => (LastRes(v).status = 401 /\ SameStore(v))
        /\ ~SameStore(v) => HasKey

\* a delete of an existing user that only the wrong key stops
C5_Witness ==
    /\ LastIs("DELETE", "/api/users/:id") /\ last.req.headers = WithKey("wrong")
    /\ ParamId(last.req) \in UserIds(map)
    /\ last.map.status = 401

(***************************************************************************)
(* C6  authorize: the provided key is the X-API-Key value when that is not *)
(* empty, else the token of an Authorization value "ApiKey <token>" (the   *)
(* scheme in any case), else empty.  Empty gives 401 "missing API key", a  *)
(* key other than the secret 401 "invalid API key", the secret lets the    *)
(* request through.  A non-empty X-API-Key wins over Authorization.        *)
(***************************************************************************)
RECURSIVE SkipBlanks(_)
SkipBlanks(s) ==
    IF s # "" /\ CharAt(s, 1) \in {" ", "\t"} THEN SkipBlanks(SubSeq(s, 2, Len(s))) ELSE s

\* the token of "ApiKey <token>": what follows the scheme and the blanks after it
TokenOf(auth) ==
    IF /\ Len(auth) >= 7
       /\ toLowerCase(SubSeq(auth, 1, 6)) = "apikey"
       /\ CharAt(auth, 7) \in {" ", "\t"}
    THEN SkipBlanks(SubSeq(auth, 7, Len(auth)))
    ELSE ""

ExpectedKey(headers) ==
    IF headers.xApiKey # "" THEN headers.xApiKey ELSE TokenOf(headers.authorization)

C6_Authorize ==
    \A v \in Variants :
        last.n > 0 =>
            LET key == ExpectedKey(last.req.headers)
            IN IF key = "" THEN Failed(v, 401, "missing API key")
               ELSE IF key # API_KEY THEN Failed(v, 401, "invalid API key")
               ELSE LastRes(v).status \in {200, 201, 404}

\* a wrong X-API-Key beside a valid Authorization header: invalid
C6_Witness ==
    /\ last.req.headers = [xApiKey |-> "wrong", authorization |-> "ApiKey " \o API_KEY]
    /\ Failed("map", 401, "invalid API key") /\ Failed("arr", 401, "invalid API key")

(***************************************************************************)
(* C7  Recent buffer: after N recorded requests the buffer holds exactly   *)
(* the last min(N, 100) records (the oldest go first), and the recent list *)
(* of /api/_stats is the last min(N, 20) records, newest first.            *)
(***************************************************************************)
\* the record of the i-th recorded request as variant v stored it
RecordOf(i, v) ==
    [ts |-> recorded[i].ts, method |-> recorded[i].method, path |-> recorded[i].path,
     status |-> recorded[i][v], ms |-> (recorded[i].ts - recorded[i].t0 + 5) \div 10]

RecordsOf(v) == [i \in 1..Len(recorded) |-> RecordOf(i, v)]

\* the filled slots of the circular buffer
MapKept == { map.metrics.recent[i][1] : i \in { j \in DOMAIN map.metrics.recent :
                                                   map.metrics.recent[j] # <<>> } }

C7_RecentBuffer ==
    LET N == Len(recorded)
        kept(v) == LastN(RecordsOf(v), Min(N, RECENT_SIZE))
        shown(v) == Reverse(LastN(RecordsOf(v), Min(N, RECENT_SHOWN)))
    IN /\ arr.metrics.recent = kept("arr")
       /\ MapKept = { kept("map")[i] : i \in 1..Min(N, RECENT_SIZE) }
       /\ Cardinality({ j \in DOMAIN map.metrics.recent : map.metrics.recent[j] # <<>> })
             = Min(N, RECENT_SIZE)
       /\ ArrStatsRecent(arr.metrics) = shown("arr")
       /\ MapStatsRecent(map.metrics) = shown("map")

\* 110 records: the first ten are overwritten, and the 20 shown lie on both
\* sides of the buffer's end
C7_Witness ==
    /\ Len(recorded) = RECENT_SIZE + 10
    /\ map.metrics.recentIndex = 10
    /\ Len(MapStatsRecent(map.metrics)) = RECENT_SHOWN

(***************************************************************************)
(* C8  Every request the server completes is recorded by the metrics       *)
(* aggregator exactly once, after its response: once a response has        *)
(* finished, totalRequests counts it and one record of it exists.          *)
(* (The statement of the claim; a request that express.static answers      *)
(* never reaches the metrics middleware.)                                  *)
(***************************************************************************)
C8_EveryCompletedRequestRecorded ==
    /\ \A v \in Variants : Cur(v).metrics.totalRequests = completed
    /\ \A n \in 1..handled :
          (\A i \in 1..Len(inflight) : inflight[i].n # n)
             => Cardinality({ i \in 1..Len(recorded) : recorded[i].n = n }) = 1

(***************************************************************************)
(* C9  Metrics are grouped by method and route template: when k recorded   *)
(* requests matched a route, whatever their ids and statuses, the routes   *)
(* of /api/_stats hold one entry with that route key, its count is k and   *)
(* its status counts add up to k (and no entry when k is 0).               *)
(***************************************************************************)
C9_OneEntryPerTemplate ==
    \A v \in Variants : \A r \in 1..Len(Routes) :
        LET key == Routes[r].method \o " " \o PathOf(Routes[r].segs)
            k == Cardinality({ i \in 1..Len(recorded) :
                                 /\ recorded[i].method = Routes[r].method
                                 /\ recorded[i].route = PathOf(Routes[r].segs) })
            routes == StatsRoutes(Cur(v).metrics.byRoute)
            rows == { j \in 1..Len(routes) : routes[j].route = key }
        IN /\ Cardinality(rows) = (IF k > 0 THEN 1 ELSE 0)
           /\ \A j \in rows :
                 /\ routes[j].count = k
                 /\ SumOver(routes[j].statuses, DOMAIN routes[j].statuses) = k

\* two recorded GET /api/users/:id with different ids and different statuses
C9_Witness ==
    \E i, j \in 1..Len(recorded) :
        /\ recorded[i].method = "GET" /\ recorded[i].route = "/api/users/:id"
        /\ recorded[j].method = "GET" /\ recorded[j].route = "/api/users/:id"
        /\ recorded[i].path # recorded[j].path
        /\ recorded[i].map # recorded[j].map

(***************************************************************************)
(* C10  Identifiers are unique and never reused: Users and Todos share one *)
(* counter that starts at 1, a new entity's id is greater than every id    *)
(* handed out before (seed data included), so no two stored entities of    *)
(* either kind share an id and a deleted entity's id is never given again. *)
(***************************************************************************)
C10_UniqueIds ==
    \A v \in Variants :
        /\ Cardinality(UserIds(Cur(v)) \cup TodoIds(Cur(v)))
              = Len(Cur(v).users) + Len(Cur(v).todos)
        /\ UserIds(Cur(v)) \cup TodoIds(Cur(v)) \subseteq issued[v]
        /\ { IdValue(id) : id \in SeedData.ids } = 1..5
        /\ \A id \in issued[v] \ last.issuedBefore[v] :
              /\ id \in UserIds(Cur(v)) \cup TodoIds(Cur(v))
              /\ \A old \in last.issuedBefore[v] : IdValue(id) > IdValue(old)

\* an entity created after user 1 and its todos were deleted
C10_Witness ==
    /\ last.map.status = 201
    /\ "1" \notin UserIds(map) /\ "1" \in issued.map
    /\ issued.map # last.issuedBefore.map

(***************************************************************************)
(* C11  updateUser on an existing User changes only the fields the request *)
(* holds: an absent name (or email) keeps its value, a given value is      *)
(* applied, the empty string included (createUser rejects an empty name),  *)
(* and the User's id and place, the other Users, the Todos and the id      *)
(* counter stay as they were.  The response is the updated User.           *)
(***************************************************************************)
C11_UpdateUserFrame ==
    \A v \in Variants :
        /\ (LastIs("PATCH", "/api/users/:id") /\ HasKey
                /\ ParamId(last.req) \in UserIds(Pre(v))) =>
              LET id == ParamId(last.req)
                  body == last.req.body
                  i == CHOOSE j \in 1..Len(Pre(v).users) : Pre(v).users[j].id = id
                  old == Pre(v).users[i]
                  new == [id |-> id,
                          name |-> IF body.name = Undefined THEN old.name ELSE body.name,
                          email |-> IF body.email = Undefined THEN old.email ELSE body.email]
              IN /\ LastRes(v) = UsersRes(200, "user", <<new>>)
                 /\ Cur(v).users = [Pre(v).users EXCEPT ![i] = new]
                 /\ Cur(v).todos = Pre(v).todos
                 /\ Cur(v).nextId = Pre(v).nextId
        /\ (LastIs("POST", "/api/users") /\ HasKey
                /\ Str("") \in {last.req.body.name, last.req.body.email}) =>
              (Failed(v, 400, "name and email are required") /\ SameStore(v))

\* the name of user 2 was set to the empty string, its email kept
C11_Witness ==
    /\ LastIs("PATCH", "/api/users/:id") /\ HasKey
    /\ last.req.body.name = Str("") /\ last.req.body.email = Undefined
    /\ \E i \in 1..Len(map.users) :
          /\ map.users[i].id = "2" /\ map.users[i].name = Str("")
          /\ map.users[i].email = last.preMap.users[i].email
          /\ last.preMap.users[i].name # Str("")

(***************************************************************************)
(* C12  listTodos answers 200 with exactly the stored Todos that match     *)
(* every filter given, in insertion order: userId equal to the given id,   *)
(* completed equal to the given boolean ("true" or "false"); with no       *)
(* filter, all Todos in insertion order.                                   *)
(***************************************************************************)
C12_ListTodosFilters ==
    \A v \in Variants :
        LastIs("GET", "/api/todos") =>
            LET query == last.req.query
                byUser == query.userId # Undefined /\ query.userId # Str("")
                byDone == query.completed \in {Str("true"), Str("false")}
                matches(t) ==
                    /\ byUser => t.userId = query.userId
                    /\ byDone => t.completed = Bool(query.completed = Str("true"))
                stored == Pre(v).todos
                kept == { i \in 1..Len(stored) : matches(stored[i]) }
                list == LastRes(v).todos
            IN /\ LastRes(v).status = 200
               /\ Len(list) = Cardinality(kept)
               /\ \A i \in kept : \E j \in 1..Len(list) : list[j] = stored[i]
               /\ \A j \in 1..Len(list) : \E i \in kept : list[j] = stored[i]
               /\ \A j, k \in 1..Len(list) :
                     j < k => \E a, b \in kept :
                                 a < b /\ stored[a] = list[j] /\ stored[b] = list[k]
               /\ (~byUser /\ ~byDone) => list = stored

\* both filters given, after a completed todo of user 2 was created: of the
\* four todos only the new one is listed
C12_Witness ==
    /\ LastIs("GET", "/api/todos")
    /\ last.req.query.userId = Str("2") /\ last.req.query.completed = Str("true")
    /\ Len(last.preMap.todos) = 4
    /\ Len(last.map.todos) = 1 /\ last.map.todos[1].id = "6"
    /\ Len(last.arr.todos) = 1

(***************************************************************************)
(* C13  GET /api/users has no error outcome: whatever createUser,          *)
(* updateUser and deleteUser requests came before, with any JSON values in *)
(* their bodies, and for every text q, it answers 200 with the Users whose *)
(* name or email contains q, letter case ignored (all Users when q is      *)
(* empty or absent), in insertion order.                                   *)
(* (The statement of the claim; the handlers call toLowerCase on a stored  *)
(* name or email that is no string and throw.)                             *)
(***************************************************************************)
C13_ListUsersNoError ==
    \A v \in Variants :
        (LastIs("GET", "/api/users") /\ last.req.query.q.t \in {"undefined", "string"}) =>
            LET q == toLowerCase(last.req.query.q.v)
                contains(u) == \/ includes(toLowerCase(u.name.v), q)
                               \/ includes(toLowerCase(u.email.v), q)
            IN /\ LastRes(v).status = 200
               /\ LastRes(v).users = SelectSeq(Pre(v).users, contains)

(***************************************************************************)
(* C14  The deletion of a User and of its Todos is atomic for every other  *)
(* operation: whatever the order in which requests are handled, no         *)
(* handler (create, update, list, get, delete) is entered in a state where *)
(* a User is already removed and a Todo with its id as userId is still     *)
(* stored.  A handler starts only when none is running, and the store it   *)
(* finds holds no Todo without its User; the delete handler, run statement *)
(* by statement, leaves what the whole cascade leaves.                     *)
(***************************************************************************)
C14_CascadeAtomic ==
    \A v \in Variants :
        \* the store the last handler was entered with
        /\ \A i \in 1..Len(Pre(v).todos) : NamesUser(Pre(v), Pre(v).todos[i].userId)
        \* the store the next handler is entered with
        /\ Idle => \A i \in 1..Len(Cur(v).todos) : NamesUser(Cur(v), Cur(v).todos[i].userId)
        /\ (Idle /\ LastIs("DELETE", "/api/users/:id") /\ LastRes(v).status = 200) =>
              LET id == ParamId(last.req)
              IN /\ Cur(v).users = SelectSeq(Pre(v).users, LAMBDA u : u.id # id)
                 /\ Cur(v).todos = SelectSeq(Pre(v).todos, LAMBDA t : t.userId # Str(id))
                 /\ Cur(v).todos = (IF v = "arr"
                                    THEN ArrCascade(Pre(v).todos, Len(Pre(v).todos), id)
                                    ELSE MapCascade(Pre(v).todos, 1, id))

\* a list of the todos of user 1, handled after the delete of user 1 has gone
\* through its cascade of two todos: it finds neither the user nor a todo of it
C14_Witness ==
    /\ handled = 2 /\ Idle
    /\ LastIs("GET", "/api/todos") /\ last.req.query.userId = Str("1")
    /\ "1" \notin UserIds(last.preMap) /\ "1" \notin UserIds(last.preArr)
    /\ Len(last.preMap.todos) = 1 /\ Len(last.preArr.todos) = 1
    /\ last.map.todos = <<>> /\ last.arr.todos = <<>>

(***************************************************************************)
(* C15  Create/read round trip: after a successful createUser, a getUser   *)
(* with the returned id, with no mutation in between, answers 200 with a   *)
(* User equal to the one create returned: the same id, name and email.     *)
(***************************************************************************)
\* what variant v answers to req in its present state
Answer(v, req) ==
    IF v = "arr" THEN ArrServe(arr, req, RouteOf(req)) ELSE MapServe(map, req, RouteOf(req))

C15_CreateGetRoundTrip ==
    \A v \in Variants :
        \* right after the create: the get of the returned id
        /\ (LastIs("POST", "/api/users") /\ LastRes(v).status = 201) =>
              LET created == LastRes(v).users[1]
                  get == Answer(v, Get(<<"api", "users", created.id>>, NoQuery))
              IN /\ created.name = last.req.body.name
                 /\ created.email = last.req.body.email
                 /\ created.id \notin UserIds(Pre(v))
                 /\ get.res = UsersRes(200, "user", <<created>>)
                 /\ Store(get.s) = Store(Cur(v))
        \* every get of a stored id answers with the stored User
        /\ (LastIs("GET", "/api/users/:id") /\ ParamId(last.req) \in UserIds(Pre(v))) =>
              /\ LastRes(v).status = 200
              /\ \E i \in 1..Len(Pre(v).users) :
                    /\ Pre(v).users[i].id = ParamId(last.req)
                    /\ LastRes(v).users = <<Pre(v).users[i]>>

\* GET /api/users/6 right after the create that returned id 6
C15_Witness ==
    /\ handled = 2
    /\ LastIs("GET", "/api/users/:id") /\ ParamId(last.req) = "6"
    /\ last.map = UsersRes(200, "user", <<User("6", Str("Cy"), Str("cy@example.com"))>>)
    /\ last.arr = last.map
    /\ recorded # <<>> /\ recorded[1].method = "POST" /\ recorded[1].map = 201

(***************************************************************************)
(* C16  Reads do not change the entity store: listUsers, getUser,          *)
(* listTodos and getTodo, found or not, leave users, todos and the id      *)
(* counter as they were; so the same GET repeated with no mutation in      *)
(* between is answered the same.                                           *)
(***************************************************************************)
ReadRoutes == {"/api/users", "/api/users/:id", "/api/todos", "/api/todos/:id"}

C16_ReadsChangeNothing ==
    \A v \in Variants :
        (last.req.method = "GET" /\ last.route \in ReadRoutes) =>
            /\ SameStore(v)
            \* the same request once more
            /\ Answer(v, last.req).res = LastRes(v)
            /\ Store(Answer(v, last.req).s) = Pre(v)

\* GET /api/users?q=ALI twice in a row on the seed data
C16_Witness ==
    /\ handled = 2 /\ completed = 2
    /\ LastIs("GET", "/api/users") /\ last.req.query.q = Str("ALI")
    /\ recorded[1].method = "GET" /\ recorded[1].path = "/api/users?q=ALI"
    /\ last.map.status = 200 /\ Len(last.map.users) = 1 /\ last.map.users[1].id = "1"
    /\ last.arr = last.map

(***************************************************************************)
(* C17  The routes of the metrics snapshot hold one entry per RouteStat,   *)
(* sorted by count in non-increasing order: of two adjacent entries the    *)
(* earlier one's count is greater than or equal to the later one's.  This  *)
(* holds for the snapshot of every reachable metrics state and for the     *)
(* routes every GET /api/_stats answered with.                             *)
(***************************************************************************)
NonIncreasing(routes) ==
    \A j \in 1..(Len(routes) - 1) : routes[j].count >= routes[j + 1].count

C17_RoutesSorted ==
    \A v \in Variants :
        LET byRoute == Cur(v).metrics.byRoute
            routes == StatsRoutes(byRoute)
        IN /\ Len(routes) = Len(byRoute)
           /\ \A i \in 1..Len(byRoute) :
                 Cardinality({ j \in 1..Len(routes) :
                                 /\ routes[j].route = byRoute[i].route
                                 /\ routes[j].count = byRoute[i].count }) = 1
           /\ NonIncreasing(routes)
           /\ LastIs("GET", "/api/_stats") => NonIncreasing(LastRes(v).stats[1].routes)

\* a snapshot whose first row was not the first RouteStat created: the sort
\* moved GET /api/_stats, polled more often, before the route recorded first
C17_Witness ==
    /\ LastIs("GET", "/api/_stats")
    /\ Len(last.map.stats[1].routes) = 3
    /\ last.map.stats[1].routes[1].route = "GET /api/_stats"
    /\ last.map.stats[1].routes[1].count > last.map.stats[1].routes[2].count
    /\ map.metrics.byRoute[1].route # "GET /api/_stats"

(***************************************************************************)
(* C18  The id counter has no gaps: it advances by exactly one on each     *)
(* successful createUser or createTodo, whose entity gets the counter's    *)
(* value as its id, and by zero on every other request (reads, updates,    *)
(* deletes, creates rejected with 400 or 401).  So in every reachable      *)
(* state the counter minus one is the number of entities ever inserted,    *)
(* the seed's included.                                                    *)
(***************************************************************************)
C18_CounterNoGaps ==
    \A v \in Variants :
        LET created == LastRes(v).status = 201
            new == LastRes(v).users \o LastRes(v).todos
        IN /\ Cur(v).nextId - 1 = Cardinality(issued[v])
           /\ Cur(v).nextId = Pre(v).nextId + (IF created THEN 1 ELSE 0)
           /\ created =>
                 /\ last.req.method = "POST" /\ last.route \in {"/api/users", "/api/todos"}
                 /\ Len(new) = 1 /\ new[1].id = String(Pre(v).nextId)
                 /\ Len(Cur(v).users) + Len(Cur(v).todos)
                       = Len(Pre(v).users) + Len(Pre(v).todos) + 1
           /\ ~created => Len(Cur(v).users) + Len(Cur(v).todos)
                             <= Len(Pre(v).users) + Len(Pre(v).todos)

\* a createTodo rejected for its userId, after a create that took id 6: the
\* counter stays at 7
C18_Witness ==
    /\ LastIs("POST", "/api/todos") /\ HasKey
    /\ Failed("map", 400, "invalid userId") /\ Failed("arr", 400, "invalid userId")
    /\ last.preMap.nextId = 7 /\ map.nextId = 7 /\ arr.nextId = 7
    /\ Cardinality(issued.map) = 6

(***************************************************************************)
(* C19  The metrics counters agree with each other in every reachable      *)
(* state: totalRequests is the sum of the RouteStats' counts, a            *)
(* RouteStat's count is the sum of its status counts, the buffer holds     *)
(* min(totalRequests, 100) records and, in the circular-buffer variant,    *)
(* the write index is totalRequests mod 100.  Counts never decrease and no *)
(* RouteStat is removed: every route key ever recorded has its RouteStat,  *)
(* whose count is the number of requests recorded under that key.          *)
(***************************************************************************)
\* the route key the i-th recorded request was counted under
RecordedKey(i) ==
    recorded[i].method \o " " \o
        (IF recorded[i].route # "" THEN recorded[i].route
         ELSE SplitHead(recorded[i].path, "?"))

C19_CountersConsistent ==
    /\ \A v \in Variants :
          LET m == Cur(v).metrics
              counts == [i \in 1..Len(m.byRoute) |-> m.byRoute[i].count]
          IN /\ m.totalRequests = SumOver(counts, DOMAIN counts)
             /\ m.totalRequests = Len(recorded)
             /\ \A i \in 1..Len(m.byRoute) :
                   /\ m.byRoute[i].count
                         = SumOver(m.byRoute[i].statuses, DOMAIN m.byRoute[i].statuses)
                   /\ m.byRoute[i].count
                         = Cardinality({ k \in 1..Len(recorded) :
                                           RecordedKey(k) = m.byRoute[i].route })
                   /\ m.byRoute[i].count > 0
                   /\ \A j \in 1..Len(m.byRoute) :
                         m.byRoute[j].route = m.byRoute[i].route => j = i
             /\ \A k \in 1..Len(recorded) :
                   \E i \in 1..Len(m.byRoute) : m.byRoute[i].route = RecordedKey(k)
    /\ Len(arr.metrics.recent) = Min(arr.metrics.totalRequests, RECENT_SIZE)
    /\ map.metrics.recentCount = Min(map.metrics.totalRequests, RECENT_SIZE)
    /\ Cardinality({ j \in DOMAIN map.metrics.recent : map.metrics.recent[j] # <<>> })
          = Min(map.metrics.totalRequests, RECENT_SIZE)
    /\ map.metrics.recentIndex = map.metrics.totalRequests % RECENT_SIZE

\* 110 requests recorded under three route keys: the buffer is full and the
\* write index has wrapped
C19_Witness ==
    /\ map.metrics.totalRequests = RECENT_SIZE + 10
    /\ map.metrics.recentCount = RECENT_SIZE /\ map.metrics.recentIndex = 10
    /\ Len(arr.metrics.recent) = RECENT_SIZE
    /\ Len(map.metrics.byRoute) = 3 /\ Len(arr.metrics.byRoute) = 3
    /\ \E i \in 1..3 : map.metrics.byRoute[i].count = RECENT_SIZE + 8

(***************************************************************************)
(* C20  The two variants cannot be told apart by their responses: for      *)
(* every sequence of requests the array server and the Map server answer   *)
(* each request with the same status and the same body, the order of the   *)
(* user and todo lists after updates and deletions and the recent list of  *)
(* /api/_stats, before and after the buffer wraps, included.               *)
(***************************************************************************)
C20_VariantsEquivalent == last.arr = last.map

\* a snapshot taken after user 1 was deleted and the buffer has wrapped: 20
\* recent records out of 105
C20_Witness ==
    /\ LastIs("GET", "/api/_stats")
    /\ last.arr.stats[1].totalRequests = RECENT_SIZE + 5
    /\ Len(last.arr.stats[1].recent) = RECENT_SHOWN
    /\ Len(last.map.stats[1].recent) = RECENT_SHOWN
    /\ last.map.stats[1].recent[RECENT_SHOWN].ts < last.map.stats[1].recent[1].ts
    /\ "1" \notin UserIds(map) /\ "1" \notin UserIds(arr)
    /\ Len(map.todos) = 1 /\ Len(arr.todos) = 1

(***************************************************************************)
(* C21  Every stored Todo's completed field is a boolean in every          *)
(* reachable state: createTodo and updateTodo turn the value sent into a   *)
(* boolean (false when create is given none), whatever its type.  So the   *)
(* Todos listed with completed=true and those listed with completed=false  *)
(* share no Todo and together are the Todos of the unfiltered list.        *)
(***************************************************************************)
\* the boolean a JSON value stands for: false for false, "", 0 and nothing sent
AsBoolean(x) == Bool(x \notin {Undefined, Bool(FALSE), Str(""), Num("0")})

\* the todos GET /api/todos lists now, under a value of the completed filter
Listed(v, c) ==
    LET list == Answer(v, Get(<<"api", "todos">>, [NoQuery EXCEPT !.completed = c])).res.todos
    IN { list[i] : i \in 1..Len(list) }

C21_CompletedIsBoolean ==
    \A v \in Variants :
        /\ \A i \in 1..Len(Cur(v).todos) :
              Cur(v).todos[i].completed \in {Bool(TRUE), Bool(FALSE)}
        /\ (last.req.method \in {"POST", "PATCH"} /\ LastRes(v).status \in {200, 201}
                /\ last.route \in {"/api/todos", "/api/todos/:id"}
                /\ (last.req.method = "POST" \/ last.req.body.completed # Undefined)) =>
              /\ LastRes(v).todos[1].completed = AsBoolean(last.req.body.completed)
              /\ \E i \in 1..Len(Cur(v).todos) : Cur(v).todos[i] = LastRes(v).todos[1]
        /\ Listed(v, Str("true")) \cap Listed(v, Str("false")) = {}
        /\ Listed(v, Str("true")) \cup Listed(v, Str("false")) = Listed(v, Undefined)
        /\ Cardinality(Listed(v, Undefined)) = Len(Cur(v).todos)

\* a todo created with the string "false" as completed: it is stored as true
\* and listed under completed=true
C21_Witness ==
    /\ LastIs("POST", "/api/todos") /\ last.req.body.completed = Str("false")
    /\ last.map.status = 201 /\ last.arr.status = 201
    /\ last.map.todos[1].completed = Bool(TRUE) /\ last.arr.todos[1].completed = Bool(TRUE)
    /\ last.map.todos[1] \in Listed("map", Str("true"))
    /\ last.arr.todos[1] \in Listed("arr", Str("true"))
    /\ handled = 2

====
